---- MODULE Spec2Model ----
(***************************************************************************)
(* The PDF search server of mindface/mpc-app (src/unnamed/part_005): the   *)
(* in-memory document registry `pdfDocuments` and the five tool handlers   *)
(* register-pdf, search-pdfs, get-pdf-content, list-pdfs and remove-pdf,   *)
(* together with registerPDFsFromFolder; and the LLM conversation chains   *)
(* (src/src/main/module, src/unnamed/part_004) with the IPC handlers that  *)
(* hold and run them (src/src/main/ipcHandlers.ts, src/unnamed/part_003).  *)
(*                                                                         *)
(* A JavaScript string is a sequence of UTF-16 code units; a code unit is  *)
(* written as a one-token TLA+ string ("a", " ", "U+0130").                *)
(***************************************************************************)
EXTENDS Integers, Sequences, FiniteSets, Bags, TLC

(***************************************************************************)
(* Bounds of the model.                                                    *)
(***************************************************************************)
MaxDocs == 2        \* registrations the model lets a run perform
MaxClock == 1       \* Date.now() ranges over 0..MaxClock
MaxLen == 2         \* longest content of the one-document search store
MaxQueryLen == 2    \* longest query of the one-document search store
MaxK == 3           \* largest maxResults
MaxCtx == 1         \* largest contextLength
MaxRuns == 2        \* start-conversation requests the model lets a run make

(***************************************************************************)
(* JavaScript string primitives.                                           *)
(***************************************************************************)
Min(a, b) == IF a <= b THEN a ELSE b
Max(a, b) == IF a >= b THEN a ELSE b

\* The code units the contents and queries of the search store are written
\* in: a letter in both cases, a white space, a character that is special in
\* a regular expression, and LATIN CAPITAL LETTER I WITH DOT ABOVE, whose
\* lower case is two code units long.
Alphabet == {"a", "A", " ", ".", "U+0130"}

\* String.prototype.toLowerCase on one code unit (Unicode SpecialCasing:
\* U+0130 becomes U+0069 U+0307).
LowerOfChar(c) ==
    CASE c = "A" -> <<"a">>
      [] c = "U+0130" -> <<"i", "U+0307">>
      [] OTHER -> <<c>>

\* String.prototype.toLowerCase
RECURSIVE ToLowerCase(_)
ToLowerCase(s) ==
    IF s = <<>> THEN <<>> ELSE LowerOfChar(Head(s)) \o ToLowerCase(Tail(s))

\* String.prototype.indexOf(needle, from), for 0 <= from: the least index
\* i >= from where needle occurs, -1 when there is none.
OccursAt(hay, needle, i) ==
    /\ i >= 0
    /\ i + Len(needle) <= Len(hay)
    /\ \A j \in 1..Len(needle) : hay[i + j] = needle[j]

IndexOf(hay, needle, from) ==
    LET hits == {i \in Min(from, Len(hay))..Len(hay) : OccursAt(hay, needle, i)}
    IN IF hits = {} THEN -1 ELSE CHOOSE i \in hits : \A j \in hits : i <= j

\* String.prototype.substring(start, end): both arguments are clamped to
\* 0..length and swapped when start > end.
Clamp(n, len) == Min(Max(n, 0), len)

Substring(s, start, end) ==
    LET fs == Clamp(start, Len(s))
        fe == Clamp(end, Len(s))
    IN SubSeq(s, Min(fs, fe) + 1, Max(fs, fe))

\* String.prototype.substring(start)
SubstringFrom(s, start) == Substring(s, start, Len(s))

\* White space as String.prototype.trim sees it.
IsWhiteSpace(c) == c \in {" ", "\t", "\n", "\r"}

RECURSIVE TrimStart(_)
TrimStart(s) ==
    IF s # <<>> /\ IsWhiteSpace(Head(s)) THEN TrimStart(Tail(s)) ELSE s

RECURSIVE TrimEnd(_)
TrimEnd(s) ==
    IF s # <<>> /\ IsWhiteSpace(s[Len(s)])
    THEN TrimEnd(SubSeq(s, 1, Len(s) - 1))
    ELSE s

\* String.prototype.trim
Trim(s) == TrimEnd(TrimStart(s))

\* Array.prototype.slice(start, end): a negative end counts from the back.
Slice(arr, start, end) ==
    LET len == Len(arr)
        k == IF start < 0 THEN Max(len + start, 0) ELSE Min(start, len)
        final == IF end < 0 THEN Max(len + end, 0) ELSE Min(end, len)
    IN SubSeq(arr, k + 1, final)

(***************************************************************************)
(* new RegExp(query, 'gi') and String.prototype.replace, for the patterns  *)
(* the alphabet can spell: every code unit but "." and "(" is a literal,   *)
(* "." matches any code unit that is no line terminator, and a "(" that    *)
(* nothing closes is a SyntaxError.                                        *)
(***************************************************************************)
RegExpValid(pattern) == \A i \in 1..Len(pattern) : pattern[i] # "("

\* Canonicalize of the ignoreCase flag: the upper case of a code unit when
\* that is a single code unit.
Canonicalize(c) == IF c = "a" THEN "A" ELSE c

IsLineTerminator(c) == c \in {"\n", "\r"}

AtomMatches(atom, c) ==
    IF atom = "." THEN ~IsLineTerminator(c)
    ELSE Canonicalize(atom) = Canonicalize(c)

RegExpMatchesAt(pattern, s, i) ==
    /\ i + Len(pattern) <= Len(s)
    /\ \A j \in 1..Len(pattern) : AtomMatches(pattern[j], s[i + j])

\* s.replace(new RegExp(pattern, 'gi'), replacement) from index i on; the
\* replacement holds no "$", so it is inserted as it is. After an empty
\* match the scan moves on by one code unit.
RECURSIVE ReplaceFrom(_, _, _, _)
ReplaceFrom(s, pattern, replacement, i) ==
    IF i > Len(s) THEN <<>>
    ELSE IF RegExpMatchesAt(pattern, s, i)
    THEN IF Len(pattern) = 0
         THEN replacement
              \o (IF i < Len(s) THEN <<s[i + 1]>> ELSE <<>>)
              \o ReplaceFrom(s, pattern, replacement, i + 1)
         ELSE replacement \o ReplaceFrom(s, pattern, replacement, i + Len(pattern))
    ELSE (IF i < Len(s) THEN <<s[i + 1]>> ELSE <<>>)
         \o ReplaceFrom(s, pattern, replacement, i + 1)

RegExpReplace(s, pattern, replacement) == ReplaceFrom(s, pattern, replacement, 0)

\* The highlight marker of the preview, and the template `**${query}**`.
Marker == <<"*", "*">>
Highlighted(query) == Marker \o query \o Marker

(***************************************************************************)
(* State.                                                                  *)
(***************************************************************************)
VARIABLES
    pdfDocuments,   \* the registry: the documents in the insertion order of their keys
    now,            \* the value Date.now() returns
    returnedIds,    \* history: the docIds register operations have returned so far
    removedIds,     \* history: the docIds remove-pdf reported removed and no
                    \* registration has returned since
    registeredAs,   \* history: the pairs <<docId, text>> registrations have stored
    parsing,        \* the register-pdf handlers suspended at `await pdfParse`
    folderRun,      \* the registerPDFsFromFolder call in progress, if any
    lastSearch,     \* observer: the latest search call and its answer, when recorded
    request,        \* the tool call being answered
    response,       \* its answer, NoResponse once delivered
    currentChain,   \* part_003: the chain instance the unified handlers hold
    chainType,      \* part_003: the chain type get-chain-type reports
    llmChain,       \* ipcHandlers.ts: the LLMChain instance its handlers hold
    chains,         \* the chain instances: their class and conversationHistory
    invocations,    \* the start-conversation requests: where each one is
                    \* suspended, and the answer of each one that has returned
    ipcResult       \* the latest answer of the handlers that do not suspend

pdfVars == <<pdfDocuments, now, returnedIds, removedIds, registeredAs, parsing,
             folderRun, lastSearch, request, response>>
llmVars == <<currentChain, chainType, llmChain, chains, invocations, ipcResult>>
vars == <<pdfVars, llmVars>>

NoRequest == [op |-> "none"]
NoResponse == [kind |-> "none"]
NoFolderRun ==
    [phase |-> "idle", folderPath |-> <<>>, files |-> <<>>, registeredIds |-> <<>>,
     raced |-> {}]
NoSearch == [call |-> [op |-> "none"], response |-> NoResponse, repeated |-> FALSE]

\* The LLM side before any handler has run: no chain held, no instance
\* constructed, no request made.
Null == "null"
NoChain == 0
ChainIds == 1..(MaxRuns + 3)
Free == [kind |-> "free", conversationHistory |-> <<>>]
NoResult == [pending |-> TRUE]
NoIpcResult == [channel |-> "none"]

LlmInit ==
    /\ currentChain = NoChain
    /\ chainType = Null
    /\ llmChain = NoChain
    /\ chains = [c \in ChainIds |-> Free]
    /\ invocations = <<>>
    /\ ipcResult = NoIpcResult

(***************************************************************************)
(* search-pdfs                                                             *)
(***************************************************************************)
\* A variant of SearchMatchAt that reports where the context starts as the
\* position of the match.
SearchMatchAt_PositionOfContext(content, query, contextLength, index) ==
    LET contextStart == Max(0, index - contextLength)
        contextEnd == Min(Len(content), index + Len(query) + contextLength)
        context == Substring(content, contextStart, contextEnd)
    IN [position |-> contextStart,
        context |-> Trim(context),
        preview |-> RegExpReplace(context, query, Highlighted(query))]

\* One SearchMatch: lines 105-114 for the occurrence at `index`.
SearchMatchAt(content, query, contextLength, index) ==
    LET contextStart == Max(0, index - contextLength)
        contextEnd == Min(Len(content), index + Len(query) + contextLength)
        context == Substring(content, contextStart, contextEnd)
    IN [position |-> index,
        context |-> Trim(context),
        preview |-> RegExpReplace(context, query, Highlighted(query))]

\* The while loop of lines 101-119 from startIndex on, with the matches
\* pushed so far; `visited` lists the value of startIndex at each iteration
\* of the loop body. `new RegExp(query, 'gi')` throws on a pattern that is no
\* regular expression, and the handler catches nothing.
RECURSIVE ScanFrom(_, _, _, _, _, _, _)
ScanFrom(content, contentLower, query, maxResults, contextLength, startIndex, matches) ==
    IF ~(startIndex < Len(contentLower))
    THEN [threw |-> FALSE, matches |-> matches, visited |-> <<>>]
    ELSE LET index == IndexOf(contentLower, ToLowerCase(query), startIndex)
         IN IF index = -1
            THEN [threw |-> FALSE, matches |-> matches, visited |-> <<startIndex>>]
            ELSE IF ~RegExpValid(query)
            THEN [threw |-> TRUE, matches |-> matches, visited |-> <<startIndex>>]
            ELSE LET pushed == Append(matches,
                                 SearchMatchAt(content, query, contextLength, index))
                 IN IF Len(pushed) >= maxResults
                    THEN [threw |-> FALSE, matches |-> pushed,
                          visited |-> <<startIndex>>]
                    ELSE LET rest == ScanFrom(content, contentLower, query,
                                              maxResults, contextLength,
                                              index + Len(query), pushed)
                         IN [rest EXCEPT !.visited = <<startIndex>> \o @]

\* Lines 96-119: the matches collected in one document.
ScanDocument(doc, query, maxResults, contextLength) ==
    ScanFrom(doc.content, ToLowerCase(doc.content), query, maxResults,
             contextLength, 0, <<>>)

\* Lines 121-128: the SearchResult of a document with matches.
SearchResultOf(doc, matches, maxResults) ==
    [docId |-> doc.id,
     filename |-> doc.filename,
     totalMatches |-> Len(matches),
     matches |-> Slice(matches, 0, Min(Len(matches), maxResults)),
     metadata |-> doc.metadata]

\* The for loop of lines 95-132 from the i-th document on.
RECURSIVE SearchFrom(_, _, _, _, _, _)
SearchFrom(documents, i, query, maxResults, contextLength, results) ==
    IF i > Len(documents)
    THEN [threw |-> FALSE, results |-> results]
    ELSE LET scan == ScanDocument(documents[i], query, maxResults, contextLength)
             found == IF Len(scan.matches) > 0
                      THEN Append(results,
                                  SearchResultOf(documents[i], scan.matches, maxResults))
                      ELSE results
         IN IF scan.threw
            THEN [threw |-> TRUE, results |-> results]
            ELSE IF Len(found) >= maxResults
            THEN [threw |-> FALSE, results |-> found]
            ELSE SearchFrom(documents, i + 1, query, maxResults, contextLength, found)

\* A variant of SearchAnswer that reports the documents with matches as the
\* total.
SearchAnswer_TotalOfResults(documents, query, maxResults, contextLength) ==
    LET run == SearchFrom(documents, 1, query, maxResults, contextLength, <<>>)
    IN IF run.threw
       THEN [kind |-> "threw", error |-> "SyntaxError"]
       ELSE [kind |-> "search",
             query |-> query,
             totalDocuments |-> Len(run.results),
             resultsFound |-> Len(run.results),
             results |-> run.results]

\* A variant of SearchAnswer whose `results` array lives outside the handler
\* and keeps what the call before pushed.
SearchAnswer_ResultsKept(documents, query, maxResults, contextLength) ==
    LET kept == IF lastSearch.response.kind = "search"
                THEN lastSearch.response.results ELSE <<>>
        run == SearchFrom(documents, 1, query, maxResults, contextLength, kept)
    IN IF run.threw
       THEN [kind |-> "threw", error |-> "SyntaxError"]
       ELSE [kind |-> "search",
             query |-> query,
             totalDocuments |-> Len(documents),
             resultsFound |-> Len(run.results),
             results |-> run.results]

\* The answer of the search-pdfs handler, lines 91-145.
SearchAnswer(documents, query, maxResults, contextLength) ==
    LET run == SearchFrom(documents, 1, query, maxResults, contextLength, <<>>)
    IN IF run.threw
       THEN [kind |-> "threw", error |-> "SyntaxError"]
       ELSE [kind |-> "search",
             query |-> query,
             totalDocuments |-> Len(documents),
             resultsFound |-> Len(run.results),
             results |-> run.results]

(***************************************************************************)
(* The registry object and the files the handlers read.                    *)
(***************************************************************************)
\* The docId `pdf_${Date.now()}_${Math.random().toString(36).substr(2, 9)}`,
\* as its three parts.
DocIdOf(time, suffix) == <<"pdf", time, suffix>>

\* Outcomes of Math.random().toString(36).substr(2, 9): the suffix of 0.5,
\* and a suffix of the full nine digits.
RandomSuffixes == {"i", "4fzzzxjyl"}

\* Property names every object inherits from Object.prototype, and a key
\* that names nothing.
InheritedKeys == {<<"constructor">>}
UnknownKey == <<"nope">>

Range(seq) == {seq[i] : i \in 1..Len(seq)}

HasOwn(documents, key) == \E i \in 1..Len(documents) : documents[i].id = key

OwnIndex(documents, key) == CHOOSE i \in 1..Len(documents) : documents[i].id = key

\* pdfDocuments[docId] read: an own entry, else what Object.prototype
\* holds under that name (a function or object, truthy, with no content or
\* filename), else undefined.
Lookup(documents, key) ==
    IF HasOwn(documents, key)
    THEN [is |-> "document", doc |-> documents[OwnIndex(documents, key)]]
    ELSE IF key \in InheritedKeys
    THEN [is |-> "inherited"]
    ELSE [is |-> "undefined"]

\* pdfDocuments[docId] = document: a key the object already has keeps its
\* place and gets the new value, a new key goes last.
Assign(documents, document) ==
    IF HasOwn(documents, document.id)
    THEN [documents EXCEPT ![OwnIndex(documents, document.id)] = document]
    ELSE Append(documents, document)

\* delete pdfDocuments[docId]
Delete(documents, key) ==
    LET keep == {i \in 1..Len(documents) : documents[i].id # key}
        F[i \in 0..Len(documents)] ==
            IF i = 0 THEN <<>>
            ELSE IF i \in keep THEN Append(F[i - 1], documents[i]) ELSE F[i - 1]
    IN F[Len(documents)]

\* The files of the machine. A path is the sequence of its components;
\* fs.readFileSync throws on a missing file and pdfParse rejects a file that
\* is no PDF.
FileA == <<"docs", "a.pdf">>
FileB == <<"docs", "b.pdf">>
FileBroken == <<"docs", "broken.pdf">>
FileNotes == <<"docs", "notes.txt">>
FileMissing == <<"missing.pdf">>
FolderDocs == <<"docs">>
FolderNowhere == <<"nowhere">>

\* fs.readFileSync(filePath) returns a buffer.
Readable(filePath) == filePath # FileMissing

\* fs.readFileSync followed by pdfParse.
ReadAndParse(filePath) ==
    CASE filePath = FileA ->
           [ok |-> TRUE, text |-> <<"a", " ", "A">>, numpages |-> 2, size |-> 30,
            info |-> "info-a"]
      [] filePath = FileB ->
           [ok |-> TRUE, text |-> <<"(", "a">>, numpages |-> 0, size |-> 20,
            info |-> "info-b"]
      [] filePath = FileMissing -> [ok |-> FALSE, error |-> "ENOENT"]
      [] OTHER -> [ok |-> FALSE, error |-> "Invalid PDF structure"]

\* path.basename
Basename(filePath) == filePath[Len(filePath)]

\* Lines 279-281: the directory listing, in the order readdirSync gives it,
\* filtered to the names ending in .pdf and joined to the folder.
FolderFiles(folderPath) ==
    IF folderPath = FolderDocs THEN <<FileA, FileBroken, FileB>> ELSE <<>>

FolderExists(folderPath) == folderPath = FolderDocs

\* Lines 34-48 and 288-302: the document built from a parsed file.
NewDocument(filePath, parsed, time, suffix) ==
    [id |-> DocIdOf(time, suffix),
     filePath |-> filePath,
     filename |-> Basename(filePath),
     content |-> parsed.text,
     metadata |-> [pages |-> parsed.numpages,
                   size |-> parsed.size,
                   createdAt |-> time,
                   info |-> parsed.info]]

NotFound == [kind |-> "error", success |-> FALSE, error |-> "Document not found"]
Threw(what) == [kind |-> "threw", error |-> what]

(***************************************************************************)
(* The handlers. A handler runs when the answer to the previous call has   *)
(* been delivered; what runs between two awaits runs without interruption. *)
(***************************************************************************)
Idle == response = NoResponse

\* Registrations performed or still to come from the calls in progress: the
\* model starts no registration beyond MaxDocs.
CountParsable(files) == Cardinality({i \in 1..Len(files) : ReadAndParse(files[i]).ok})

Committed ==
    Len(returnedIds)
    + BagCardinality(parsing)
    + (IF folderRun.phase = "running"
       THEN Len(folderRun.registeredIds) + CountParsable(folderRun.files)
       ELSE 0)

\* Date.now() moves on.
Tick ==
    /\ Idle
    /\ now < MaxClock
    /\ now' = now + 1
    /\ UNCHANGED <<pdfDocuments, returnedIds, removedIds, registeredAs, parsing,
                   folderRun, lastSearch, request, response>>

\* A suspended register-pdf handler: the file it read, and the docIds other
\* registrations have stored since it was suspended.
Suspended(filePath) == [filePath |-> filePath, raced |-> {}]

\* The registrations in flight learn of the docId another one has stored.
RacedWith(pending, docId) ==
    LET F[S \in SUBSET BagToSet(pending)] ==
            IF S = {} THEN EmptyBag
            ELSE LET p == CHOOSE x \in S : TRUE
                     q == [p EXCEPT !.raced = @ \cup {docId}]
                     rest == F[S \ {p}]
                 IN rest (+) [x \in {q} |-> CopiesIn(p, pending)]
    IN F[BagToSet(pending)]

\* register-pdf up to its await, lines 29-32: readFileSync throws on a file
\* that is not there, and the catch answers at once; else the handler is
\* suspended at `await pdfParse(buffer)`.
RegisterStart(filePath) ==
    /\ Idle
    /\ Committed < MaxDocs
    /\ IF Readable(filePath)
       THEN /\ parsing' = parsing (+) SetToBag({Suspended(filePath)})
            /\ UNCHANGED <<request, response>>
       ELSE /\ request' = [op |-> "register-pdf", filePath |-> filePath]
            /\ response' = [kind |-> "error", success |-> FALSE,
                            error |-> ReadAndParse(filePath).error]
            /\ UNCHANGED parsing
    /\ UNCHANGED <<pdfDocuments, now, returnedIds, removedIds, registeredAs,
                   folderRun, lastSearch>>

\* A variant of RegisterPdf that stores the document before it looks at the
\* outcome of the parse.
RegisterPdf_StoresFirst(pending, suffix) ==
    /\ Idle
    /\ BagIn(pending, parsing)
    /\ request' = [op |-> "register-pdf", filePath |-> pending.filePath,
                   raced |-> pending.raced]
    /\ LET parsed == ReadAndParse(pending.filePath)
           document == NewDocument(pending.filePath,
                                   [text |-> <<>>, numpages |-> 0, size |-> 0,
                                    info |-> "none"],
                                   now, suffix)
       IN /\ pdfDocuments' = Assign(pdfDocuments, document)
          /\ response' = IF parsed.ok
                          THEN [kind |-> "registered", success |-> TRUE,
                                docId |-> document.id,
                                filename |-> document.filename,
                                pages |-> 0, contentLength |-> 0]
                          ELSE [kind |-> "error", success |-> FALSE,
                                error |-> parsed.error]
          /\ returnedIds' = IF parsed.ok THEN Append(returnedIds, document.id)
                            ELSE returnedIds
          /\ parsing' = parsing (-) SetToBag({pending})
    /\ UNCHANGED <<now, removedIds, registeredAs, folderRun, lastSearch>>

\* register-pdf from its await on, lines 32-77: pdfParse has settled for the
\* suspended handler `pending`.
RegisterPdf(pending, suffix) ==
    /\ Idle
    /\ BagIn(pending, parsing)
    /\ request' = [op |-> "register-pdf", filePath |-> pending.filePath,
                   raced |-> pending.raced]
    /\ LET parsed == ReadAndParse(pending.filePath)
           others == parsing (-) SetToBag({pending})
       IN IF parsed.ok
          THEN LET document == NewDocument(pending.filePath, parsed, now, suffix)
               IN /\ pdfDocuments' = Assign(pdfDocuments, document)
                  /\ returnedIds' = Append(returnedIds, document.id)
                  /\ removedIds' = removedIds \ {document.id}
                  /\ registeredAs' = registeredAs \cup {<<document.id, parsed.text>>}
                  /\ parsing' = RacedWith(others, document.id)
                  /\ folderRun' = IF folderRun.phase = "running"
                                  THEN [folderRun EXCEPT !.raced = @ \cup {document.id}]
                                  ELSE folderRun
                  /\ response' = [kind |-> "registered",
                                  success |-> TRUE,
                                  docId |-> document.id,
                                  filename |-> document.filename,
                                  pages |-> document.metadata.pages,
                                  contentLength |-> Len(parsed.text)]
          ELSE /\ response' = [kind |-> "error", success |-> FALSE,
                               error |-> parsed.error]
               /\ parsing' = others
               /\ UNCHANGED <<pdfDocuments, returnedIds, removedIds, registeredAs,
                              folderRun>>
    /\ UNCHANGED <<now, lastSearch>>

\* A variant of SearchPdfs that keeps the lower-cased content in the document
\* it scanned.
SearchPdfs_KeepsLowerCase(query, maxResults, contextLength) ==
    /\ Idle
    /\ request' = [op |-> "search-pdfs", query |-> query,
                   maxResults |-> maxResults, contextLength |-> contextLength]
    /\ response' = SearchAnswer(pdfDocuments, query, maxResults, contextLength)
    /\ pdfDocuments' = [i \in 1..Len(pdfDocuments) |->
                          [pdfDocuments[i] EXCEPT !.content = ToLowerCase(@)]]
    /\ UNCHANGED <<now, returnedIds, removedIds, registeredAs, parsing, folderRun>>

\* search-pdfs, lines 91-145.
SearchPdfs(query, maxResults, contextLength) ==
    /\ Idle
    /\ request' = [op |-> "search-pdfs", query |-> query,
                   maxResults |-> maxResults, contextLength |-> contextLength]
    /\ response' = SearchAnswer(pdfDocuments, query, maxResults, contextLength)
    /\ UNCHANGED <<pdfDocuments, now, returnedIds, removedIds, registeredAs,
                   parsing, folderRun>>

\* The observer notes the search call, the registry it ran on, its answer,
\* and whether the call before it was the same call on the same registry.
Recorded(query, maxResults, contextLength) ==
    LET call == [op |-> "search-pdfs", query |-> query,
                 maxResults |-> maxResults, contextLength |-> contextLength,
                 documents |-> pdfDocuments]
    IN lastSearch' = [call |-> call,
                      response |-> SearchAnswer(pdfDocuments, query, maxResults,
                                                contextLength),
                      repeated |-> lastSearch.call = call]

\* An optional numeric argument: left out, or a number.
Undefined == [given |-> FALSE]
Number(n) == [given |-> TRUE, value |-> n]
Truthy(arg) == arg.given /\ arg.value # 0

\* get-pdf-content, lines 159-190. `doc.content` of an inherited property
\* is undefined, and calling substring on it throws a TypeError.
ContentAnswer(documents, docId, startChar, length) ==
    LET found == Lookup(documents, docId)
    IN CASE found.is = "undefined" -> NotFound
         [] found.is = "inherited" -> Threw("TypeError")
         [] OTHER ->
              LET content == IF Truthy(length)
                             THEN Substring(found.doc.content, startChar,
                                            startChar + length.value)
                             ELSE SubstringFrom(found.doc.content, startChar)
              IN [kind |-> "content",
                  success |-> TRUE,
                  docId |-> found.doc.id,
                  filename |-> found.doc.filename,
                  startChar |-> startChar,
                  contentLength |-> Len(content),
                  content |-> content]

GetPdfContent(docId, startChar, length) ==
    /\ Idle
    /\ request' = [op |-> "get-pdf-content", docId |-> docId,
                   startChar |-> startChar, length |-> length]
    /\ response' = ContentAnswer(pdfDocuments, docId, startChar, length)
    /\ UNCHANGED <<pdfDocuments, now, returnedIds, removedIds, registeredAs,
                   parsing, folderRun, lastSearch>>

\* A variant of ListAnswer that counts the documents but lists all except
\* the first.
ListAnswer_SkipsFirst(documents) ==
    [kind |-> "list",
     totalDocuments |-> Len(documents),
     documents |-> [i \in 1..(Len(documents) - 1) |->
                      [docId |-> documents[i + 1].id,
                       filename |-> documents[i + 1].filename,
                       pages |-> documents[i + 1].metadata.pages,
                       contentLength |-> Len(documents[i + 1].content),
                       createdAt |-> documents[i + 1].metadata.createdAt,
                       filePath |-> documents[i + 1].filePath]]]

\* list-pdfs, lines 200-219.
ListAnswer(documents) ==
    [kind |-> "list",
     totalDocuments |-> Len(documents),
     documents |-> [i \in 1..Len(documents) |->
                      [docId |-> documents[i].id,
                       filename |-> documents[i].filename,
                       pages |-> documents[i].metadata.pages,
                       contentLength |-> Len(documents[i].content),
                       createdAt |-> documents[i].metadata.createdAt,
                       filePath |-> documents[i].filePath]]]

ListPdfs ==
    /\ Idle
    /\ request' = [op |-> "list-pdfs"]
    /\ response' = ListAnswer(pdfDocuments)
    /\ UNCHANGED <<pdfDocuments, now, returnedIds, removedIds, registeredAs,
                   parsing, folderRun, lastSearch>>

\* remove-pdf, lines 231-258. For an inherited property `doc.filename` is
\* undefined and the delete removes nothing.
RemoveAnswer(documents, docId) ==
    LET found == Lookup(documents, docId)
    IN CASE found.is = "undefined" -> NotFound
         [] OTHER ->
              [kind |-> "removed",
               success |-> TRUE,
               message |-> <<"Document",
                             IF found.is = "document" THEN found.doc.filename
                             ELSE "undefined",
                             "removed successfully">>,
               docId |-> docId]

RemovePdf(docId) ==
    /\ Idle
    /\ request' = [op |-> "remove-pdf", docId |-> docId]
    /\ response' = RemoveAnswer(pdfDocuments, docId)
    /\ pdfDocuments' = IF Lookup(pdfDocuments, docId).is = "undefined"
                       THEN pdfDocuments
                       ELSE Delete(pdfDocuments, docId)
    /\ removedIds' = IF Lookup(pdfDocuments, docId).is = "undefined"
                     THEN removedIds
                     ELSE removedIds \cup {docId}
    /\ registeredAs' = IF Lookup(pdfDocuments, docId).is = "undefined"
                       THEN registeredAs
                       ELSE {r \in registeredAs : r[1] # docId}
    /\ UNCHANGED <<now, returnedIds, parsing, folderRun, lastSearch>>

\* The caller receives the answer.
Deliver ==
    /\ ~Idle
    /\ request' = NoRequest
    /\ response' = NoResponse
    /\ UNCHANGED <<pdfDocuments, now, returnedIds, removedIds, registeredAs,
                   parsing, folderRun, lastSearch>>

(***************************************************************************)
(* registerPDFsFromFolder, lines 266-319. The call runs up to its first    *)
(* await, then one file per step: each step resumes after `await pdfParse` *)
(* of the file at the head of `files`, and runs on to the next await or to *)
(* the return.                                                             *)
(***************************************************************************)
FolderStart(folderPath) ==
    /\ Idle
    /\ folderRun.phase = "idle"
    /\ Committed + CountParsable(FolderFiles(folderPath)) <= MaxDocs
    /\ folderRun' = IF FolderExists(folderPath) /\ FolderFiles(folderPath) # <<>>
                    THEN [phase |-> "running", folderPath |-> folderPath,
                          files |-> FolderFiles(folderPath),
                          registeredIds |-> <<>>, raced |-> {}]
                    ELSE [phase |-> "returned", folderPath |-> folderPath,
                          files |-> <<>>, registeredIds |-> <<>>, raced |-> {}]
    /\ UNCHANGED <<pdfDocuments, now, returnedIds, removedIds, registeredAs,
                   parsing, lastSearch, request, response>>

\* A variant of FolderStep that pushes the docId whether or not the file was
\* parsed.
FolderStep_PushesAlways(suffix) ==
    /\ Idle
    /\ folderRun.phase = "running"
    /\ LET pdfPath == Head(folderRun.files)
           rest == Tail(folderRun.files)
           parsed == ReadAndParse(pdfPath)
           ids == Append(folderRun.registeredIds, DocIdOf(now, suffix))
       IN /\ pdfDocuments' = IF parsed.ok
                             THEN Assign(pdfDocuments,
                                         NewDocument(pdfPath, parsed, now, suffix))
                             ELSE pdfDocuments
          /\ folderRun' = [phase |-> IF rest = <<>> THEN "returned" ELSE "running",
                           folderPath |-> folderRun.folderPath,
                           files |-> rest,
                           registeredIds |-> ids,
                           raced |-> {}]
          /\ returnedIds' = IF rest = <<>> THEN returnedIds \o ids ELSE returnedIds
    /\ UNCHANGED <<now, removedIds, registeredAs, parsing, lastSearch, request,
                   response>>

FolderStep(suffix) ==
    /\ Idle
    /\ folderRun.phase = "running"
    /\ LET pdfPath == Head(folderRun.files)
           rest == Tail(folderRun.files)
           parsed == ReadAndParse(pdfPath)
           document == NewDocument(pdfPath, parsed, now, suffix)
           ids == IF parsed.ok
                  THEN Append(folderRun.registeredIds, document.id)
                  ELSE folderRun.registeredIds
       IN /\ pdfDocuments' = IF parsed.ok THEN Assign(pdfDocuments, document)
                             ELSE pdfDocuments
          /\ folderRun' = [phase |-> IF rest = <<>> THEN "returned" ELSE "running",
                           folderPath |-> folderRun.folderPath,
                           files |-> rest,
                           registeredIds |-> ids,
                           raced |-> {}]
          /\ returnedIds' = IF rest = <<>> THEN returnedIds \o ids ELSE returnedIds
          /\ removedIds' = IF parsed.ok THEN removedIds \ {document.id} ELSE removedIds
          /\ registeredAs' = IF parsed.ok
                             THEN registeredAs \cup {<<document.id, parsed.text>>}
                             ELSE registeredAs
          /\ parsing' = IF parsed.ok THEN RacedWith(parsing, document.id) ELSE parsing
    /\ UNCHANGED <<now, lastSearch, request, response>>

\* The caller of registerPDFsFromFolder receives the list of ids.
FolderCollect ==
    /\ folderRun.phase = "returned"
    /\ folderRun' = NoFolderRun
    /\ UNCHANGED <<pdfDocuments, now, returnedIds, removedIds, registeredAs,
                   parsing, lastSearch, request, response>>

(***************************************************************************)
(* The server: an empty registry, and calls in any order.                  *)
(***************************************************************************)
RECURSIVE StringsOfLength(_)
StringsOfLength(n) ==
    IF n = 0 THEN {<<>>}
    ELSE {Append(s, c) : s \in StringsOfLength(n - 1), c \in Alphabet}

Strings(n) == UNION {StringsOfLength(m) : m \in 0..n}

\* The contents and the queries of the one-document search store.
Contents == Strings(MaxLen)
Queries == Strings(MaxQueryLen)

FilePaths == {FileA, FileB, FileBroken, FileMissing}
FolderPaths == {FolderDocs, FolderNowhere}
StoreQueries == {<<>>, <<"a">>, <<"(">>, <<".">>}
MaxResultsValues == (-1)..MaxK
ContextLengths == (-1)..MaxCtx
StoreContextLengths == {1}
StoreMaxResults == (-1)..2
StartChars == 0..3
LengthArgs == {Undefined, Number(-1), Number(0), Number(1)}
Keys == Range(returnedIds) \cup InheritedKeys \cup {UnknownKey}

Init ==
    /\ pdfDocuments = <<>>
    /\ now = 0
    /\ returnedIds = <<>>
    /\ removedIds = {}
    /\ registeredAs = {}
    /\ parsing = EmptyBag
    /\ folderRun = NoFolderRun
    /\ lastSearch = NoSearch
    /\ request = NoRequest
    /\ response = NoResponse
    /\ LlmInit

Next ==
    \/ Tick /\ UNCHANGED llmVars
    \/ UNCHANGED llmVars /\ Idle /\ \E filePath \in FilePaths : RegisterStart(filePath)
    \/ UNCHANGED llmVars /\ Idle /\
           \E pending \in BagToSet(parsing), suffix \in RandomSuffixes :
                 RegisterPdf(pending, suffix)
    \/ UNCHANGED llmVars /\ Idle /\
           \E query \in StoreQueries, maxResults \in StoreMaxResults,
              contextLength \in StoreContextLengths :
                 SearchPdfs(query, maxResults, contextLength) /\ UNCHANGED lastSearch
    \/ UNCHANGED llmVars /\ Idle /\
           \E docId \in Keys, startChar \in StartChars, length \in LengthArgs :
                 GetPdfContent(docId, startChar, length)
    \/ ListPdfs /\ UNCHANGED llmVars
    \/ UNCHANGED llmVars /\ Idle /\ \E docId \in Keys : RemovePdf(docId)
    \/ Deliver /\ UNCHANGED llmVars
    \/ UNCHANGED llmVars /\ Idle /\ \E folderPath \in FolderPaths : FolderStart(folderPath)
    \/ UNCHANGED llmVars /\ Idle /\ \E suffix \in RandomSuffixes : FolderStep(suffix)
    \/ FolderCollect /\ UNCHANGED llmVars

Spec == Init /\ [][Next]_vars

(***************************************************************************)
(* The search handler alone, over a registry that holds one document of    *)
(* any content up to MaxLen code units.                                    *)
(***************************************************************************)
OneDocument(content) ==
    NewDocument(FileA,
                [ok |-> TRUE, text |-> content, numpages |-> 1, size |-> 10,
                 info |-> "info"],
                0, "i")

SearchInit ==
    /\ pdfDocuments \in {<<OneDocument(content)>> : content \in Contents}
    /\ now = 0
    /\ returnedIds = <<DocIdOf(0, "i")>>
    /\ removedIds = {}
    /\ registeredAs = {<<DocIdOf(0, "i"), pdfDocuments[1].content>>}
    /\ parsing = EmptyBag
    /\ folderRun = NoFolderRun
    /\ lastSearch = NoSearch
    /\ request = NoRequest
    /\ response = NoResponse
    /\ LlmInit

SearchNext ==
    UNCHANGED llmVars /\ Idle /\
        \E query \in Queries, maxResults \in MaxResultsValues,
           contextLength \in ContextLengths :
               SearchPdfs(query, maxResults, contextLength) /\ UNCHANGED lastSearch

SearchSpec == SearchInit /\ [][SearchNext]_vars

(***************************************************************************)
(* The search handler called again and again, with the observer recording  *)
(* each call, over a registry of one document that may be removed.         *)
(***************************************************************************)
RepeatNext ==
    \/ UNCHANGED llmVars /\ Idle /\
           \E query \in StoreQueries, maxResults \in StoreMaxResults,
              contextLength \in StoreContextLengths :
                 /\ SearchPdfs(query, maxResults, contextLength)
                 /\ Recorded(query, maxResults, contextLength)
    \/ UNCHANGED llmVars /\ Idle /\ \E docId \in Keys : RemovePdf(docId)
    \/ Deliver /\ UNCHANGED llmVars

RepeatSpec == SearchInit /\ [][RepeatNext]_vars

(***************************************************************************)
(* The search handler over a registry that holds the one document of the   *)
(* quick-brown-fox scenario.                                               *)
(***************************************************************************)
FoxText ==
    <<"t", "h", "e", " ", "q", "u", "i", "c", "k", " ", "b", "r", "o",
    "w", "n", " ", "f", "o", "x", " ", "t", "h", "e", " ", "q", "u",
    "i", "c", "k", " ", "f", "o", "x">>

Quick == <<"q", "u", "i", "c", "k">>

Infixes(s) == {SubSeq(s, i, j) : i \in 1..Len(s), j \in 1..Len(s)} \ {<<>>}

ScenarioQueries ==
    Infixes(Quick) \cup {<<"t", "h", "e">>, <<"f", "o", "x">>, <<"Q", "U", "I", "C", "K">>}
ScenarioMaxResults == {1, 2, 10}
ScenarioContextLengths == {0, 5, 200}

ScenarioInit ==
    /\ pdfDocuments = <<OneDocument(FoxText)>>
    /\ now = 0
    /\ returnedIds = <<DocIdOf(0, "i")>>
    /\ removedIds = {}
    /\ registeredAs = {<<DocIdOf(0, "i"), FoxText>>}
    /\ parsing = EmptyBag
    /\ folderRun = NoFolderRun
    /\ lastSearch = NoSearch
    /\ request = NoRequest
    /\ response = NoResponse
    /\ LlmInit

ScenarioNext ==
    UNCHANGED llmVars /\ Idle /\
        \E query \in ScenarioQueries, maxResults \in ScenarioMaxResults,
           contextLength \in ScenarioContextLengths :
               SearchPdfs(query, maxResults, contextLength) /\ UNCHANGED lastSearch

ScenarioSpec == ScenarioInit /\ [][ScenarioNext]_vars

(***************************************************************************)
(* The LLM conversation chains.                                            *)
(*                                                                         *)
(* A chain instance is an object of one of the four chain classes; it is   *)
(* named here by the chain type that constructs it.  The instances live in *)
(* `chains`, indexed by ChainIds; an instance nothing refers to any more   *)
(* is collected.  At most MaxRuns suspended invocations and the two module *)
(* variables can refer to an instance, so MaxRuns + 3 slots always leave   *)
(* room for the one a handler constructs before it lets the old one go.    *)
(***************************************************************************)
ChainTypes == {"claude-gemini", "gemini-only", "huggingface-gemini", "cohere-gemini"}
InitTypes == ChainTypes \cup {"other"}
ApiKeys == {"geminiApiKey", "claudeApiKey", "huggingFaceApiKey", "cohereApiKey"}
KeySets == {{}, {"geminiApiKey"}, ApiKeys}
Questions == {"q"}

\* `new LLMChain(...)`, `new LLMChainGeminiOnly(...)`, ...: the field
\* initialiser `conversationHistory = []`.
NewChain(kind) == [kind |-> kind, conversationHistory |-> <<>>]

\* The slot a `new` takes.
FreeId(heap) ==
    CHOOSE c \in ChainIds :
        /\ heap[c] = Free
        /\ \A d \in ChainIds : d < c => heap[d] # Free

\* The instances something still refers to: a module variable, or the `this`
\* of an invocation that has not returned.
Collect(heap, unified, plain, invs) ==
    [c \in ChainIds |->
        IF \/ c = unified
           \/ c = plain
           \/ \E i \in 1..Len(invs) : invs[i].pc # "done" /\ invs[i].this = c
        THEN heap[c]
        ELSE Free]

\* One ConversationMessage.  `part` says which message of the round order
\* it is and `by` which invocation pushed it; the timestamp is left out.
Message(role, from, part, content, by) ==
    [role |-> role, from |-> from, part |-> part, content |-> content, by |-> by]

\* The `from` values the four classes write.
Asker(kind) == IF kind = "gemini-only" THEN "gemini-1" ELSE "gemini"
Responder(kind) == IF kind = "gemini-only" THEN "gemini-2" ELSE "gemini"
Partner(kind) ==
    CASE kind = "claude-gemini" -> "claude"
      [] kind = "cohere-gemini" -> "cohere"
      [] kind = "huggingface-gemini" -> "huggingface"
      [] kind = "gemini-only" -> "gemini-2"
PartnerAsks(kind) == IF kind = "gemini-only" THEN "gemini-1" ELSE Partner(kind)

\* The provider the round-1 call goes to.
PartnerProvider(kind) == IF kind = "gemini-only" THEN "gemini" ELSE Partner(kind)

\* The pushes of runConversationChain between its awaits.
BeforeRound1(kind, initialQuestion, by) ==
    <<Message("user", Asker(kind), "question", initialQuestion, by)>>

AfterRound1(kind, response1, by) ==
    <<Message("assistant", Partner(kind), "answer1", response1, by)>>
    \o (IF kind = "gemini-only"
        THEN <<Message("user", "gemini-1", "followUp2", "followUp", by)>>
        ELSE <<>>)

AfterRound2(kind, by) ==
    (IF kind \in {"cohere-gemini", "huggingface-gemini"}
     THEN <<Message("user", "gemini", "followUp2", "followUp", by)>>
     ELSE <<>>)
    \o <<Message("assistant", Responder(kind), "answer2", "response2", by),
         Message("user", PartnerAsks(kind), "question3", "finalQuestion", by)>>

AfterRound3(kind, by) ==
    <<Message("assistant", Responder(kind), "final", "finalResponse", by)>>

\* What the catch of askGemini throws, and what the handlers answer.
GeminiFailed == "Gemini API failed"
NotInitialized(channel) ==
    IF channel = "start-unified-conversation"
    THEN "No LLM Chain initialized. Please provide API keys first."
    ELSE "LLM Chain not initialized. Please provide API keys first."

Succeeded(conversation) == [success |-> TRUE, conversation |-> conversation]
Failed(error) == [success |-> FALSE, error |-> error]

\* The instance a start-conversation channel works on.
HeldBy(channel) ==
    IF channel = "start-unified-conversation" THEN currentChain ELSE llmChain

StartChannels == {"start-unified-conversation", "start-ai-conversation"}

(***************************************************************************)
(* init-llm-unified, get-chain-type, init-llm-chain                        *)
(***************************************************************************)
\* The keys each case of the switch asks for, and the error it throws when
\* one is missing.
RequiredKeys(type) ==
    CASE type = "claude-gemini" -> {"geminiApiKey", "claudeApiKey"}
      [] type = "gemini-only" -> {"geminiApiKey"}
      [] type = "huggingface-gemini" -> {"geminiApiKey", "huggingFaceApiKey"}
      [] type = "cohere-gemini" -> {"geminiApiKey", "cohereApiKey"}

MissingKeyError(type) ==
    CASE type = "claude-gemini" -> "Both Gemini and Claude API keys are required"
      [] type = "gemini-only" -> "Gemini API key is required"
      [] type = "huggingface-gemini" -> "Both Gemini and HuggingFace API keys are required"
      [] type = "cohere-gemini" -> "Both Gemini and Cohere API keys are required"

\* init-llm-unified: `chainType = type` comes first, then the switch either
\* throws or constructs the chain and assigns it to currentChain.
InitLlmUnified(type, keys) ==
    LET valid == type \in ChainTypes
        complete == valid /\ RequiredKeys(type) \subseteq keys
        held == IF complete THEN FreeId(chains) ELSE currentChain
        heap == IF complete THEN [chains EXCEPT ![held] = NewChain(type)] ELSE chains
        answer == IF complete THEN [success |-> TRUE, chainType |-> type]
                  ELSE IF valid THEN Failed(MissingKeyError(type))
                  ELSE Failed("Invalid chain type")
    IN /\ chainType' = type
       /\ currentChain' = held
       /\ chains' = Collect(heap, held, llmChain, invocations)
       /\ ipcResult' = [channel |-> "init-llm-unified", answer |-> answer]
       /\ UNCHANGED <<llmChain, invocations>>

\* get-chain-type.
GetChainType ==
    /\ ipcResult' = [channel |-> "get-chain-type", answer |-> chainType]
    /\ UNCHANGED <<currentChain, chainType, llmChain, chains, invocations>>

\* init-llm-chain: `new LLMChain(...)` inside a try.  The handler checks no
\* key; `threw` is the constructor of the Claude client refusing a missing
\* key.
ClaudeKeys == {"", "key"}

InitLlmChain(claudeApiKey, threw) ==
    LET held == IF threw THEN llmChain ELSE FreeId(chains)
        heap == IF threw THEN chains
                ELSE [chains EXCEPT ![held] = NewChain("claude-gemini")]
    IN /\ threw => claudeApiKey = ""
       /\ llmChain' = held
       /\ chains' = Collect(heap, currentChain, held, invocations)
       /\ ipcResult' = [channel |-> "init-llm-chain",
                        answer |-> IF threw THEN Failed("missing key")
                                   ELSE [success |-> TRUE]]
       /\ UNCHANGED <<currentChain, chainType, invocations>>

\* The answer goes back to the renderer.
Reply ==
    /\ ipcResult # NoIpcResult
    /\ ipcResult' = NoIpcResult
    /\ UNCHANGED <<currentChain, chainType, llmChain, chains, invocations>>

(***************************************************************************)
(* start-unified-conversation, start-ai-conversation and the               *)
(* runConversationChain they await.  (The handlers that read or clear the  *)
(* history are not modelled.)                                              *)
(*                                                                         *)
(* An invocation is suspended only at the provider calls of its three      *)
(* rounds.  askCohere and askHuggingFace make several calls of their own   *)
(* before they settle; they touch no state of the chain in between, and    *)
(* are taken here as settling in one step.                                 *)
(***************************************************************************)
Push(heap, c, messages) ==
    [heap EXCEPT ![c].conversationHistory = @ \o messages]

Awaiting(i, pc) == i \in 1..Len(invocations) /\ invocations[i].pc = pc

\* The invocation after one more call of a provider method has settled.
Called(inv, provider, ok) ==
    [inv EXCEPT !.geminiFailed = @ \/ (~ok /\ provider = "gemini")]

\* The handler's return: the invocation lets go of its instance.
Returned(inv, result) ==
    [inv EXCEPT !.pc = "done", !.this = NoChain, !.result = result]

\* The invocation `i` runs on from an await to its next await or its return.
Resume(i, inv, heap) ==
    /\ invocations' = [invocations EXCEPT ![i] = inv]
    /\ chains' = Collect(heap, currentChain, llmChain, invocations')
    /\ UNCHANGED <<currentChain, chainType, llmChain, ipcResult>>

\* The handler up to its first await: the null check, then
\* runConversationChain resets the history, pushes the question and calls
\* the round-1 provider.
StartConversation(channel, initialQuestion) ==
    LET held == HeldBy(channel)
        by == Len(invocations) + 1
        kind == IF held = NoChain THEN "none" ELSE chains[held].kind
        invocation == [channel |-> channel, this |-> held, kind |-> kind,
                       pc |-> "round1", rounds |-> 0, called |-> held # NoChain,
                       geminiFailed |-> FALSE, result |-> NoResult]
    IN /\ Len(invocations) < MaxRuns
       /\ IF held = NoChain
          THEN /\ invocations' =
                     Append(invocations,
                            Returned(invocation, Failed(NotInitialized(channel))))
               /\ UNCHANGED chains
          ELSE /\ invocations' = Append(invocations, invocation)
               /\ chains' = [chains EXCEPT ![held].conversationHistory =
                                 BeforeRound1(kind, initialQuestion, by)]
       /\ UNCHANGED <<currentChain, chainType, llmChain, ipcResult>>

\* A variant of AskPartner whose round 1 has no Gemini fallback: the
\* partner's failure rejects the run.
AskPartner_NoFallback(i, ok) ==
    /\ Awaiting(i, "round1")
    /\ LET inv == invocations[i]
           kind == inv.kind
           called == Called(inv, PartnerProvider(kind), ok)
       IN IF ok
          THEN Resume(i, [called EXCEPT !.pc = "round2", !.rounds = 1],
                      Push(chains, inv.this, AfterRound1(kind, "response1", i)))
          ELSE Resume(i, Returned(called, Failed("Partner API failed")), chains)

\* Round 1 resumes from the partner's call: askClaude, askCohere,
\* askHuggingFace, or the askGemini of the Gemini-only chain.  askClaude and
\* askCohere reject and the catch calls askGemini; askHuggingFace returns
\* its notice instead of rejecting; the Gemini-only chain has no catch.
AskPartner(i, ok) ==
    /\ Awaiting(i, "round1")
    /\ LET inv == invocations[i]
           kind == inv.kind
           called == Called(inv, PartnerProvider(kind), ok)
           answered(response1) ==
               Resume(i, [called EXCEPT !.pc = "round2", !.rounds = 1],
                      Push(chains, inv.this, AfterRound1(kind, response1, i)))
       IN CASE ok -> answered("response1")
            [] ~ok /\ kind \in {"claude-gemini", "cohere-gemini"} ->
                   Resume(i, [called EXCEPT !.pc = "fallback"], chains)
            [] ~ok /\ kind = "huggingface-gemini" ->
                   answered("HuggingFace API is currently experiencing issues")
            [] ~ok /\ kind = "gemini-only" ->
                   Resume(i, Returned(called, Failed(GeminiFailed)), chains)

\* Round 1 resumes from the askGemini of its catch.
GeminiFallback(i, ok) ==
    /\ Awaiting(i, "fallback")
    /\ LET inv == invocations[i]
           called == Called(inv, "gemini", ok)
       IN IF ok
          THEN Resume(i, [called EXCEPT !.pc = "round2", !.rounds = 1],
                      Push(chains, inv.this,
                           AfterRound1(inv.kind, "fallbackResponse1", i)))
          ELSE Resume(i, Returned(called, Failed(GeminiFailed)), chains)

\* Round 2 resumes from its askGemini.
AskGeminiFollowUp(i, ok) ==
    /\ Awaiting(i, "round2")
    /\ LET inv == invocations[i]
           called == Called(inv, "gemini", ok)
       IN IF ok
          THEN Resume(i, [called EXCEPT !.pc = "round3", !.rounds = 2],
                      Push(chains, inv.this, AfterRound2(inv.kind, i)))
          ELSE Resume(i, Returned(called, Failed(GeminiFailed)), chains)

\* Round 3 resumes from its askGemini; `return this.conversationHistory` and
\* the handler's answer follow at once.
AskGeminiFinal(i, ok) ==
    /\ Awaiting(i, "round3")
    /\ LET inv == invocations[i]
           called == Called(inv, "gemini", ok)
           heap == Push(chains, inv.this, AfterRound3(inv.kind, i))
       IN IF ok
          THEN Resume(i, Returned([called EXCEPT !.rounds = 3],
                                  Succeeded(heap[inv.this].conversationHistory)),
                      heap)
          ELSE Resume(i, Returned(called, Failed(GeminiFailed)), chains)

PdfInit ==
    /\ pdfDocuments = <<>>
    /\ now = 0
    /\ returnedIds = <<>>
    /\ removedIds = {}
    /\ registeredAs = {}
    /\ parsing = EmptyBag
    /\ folderRun = NoFolderRun
    /\ lastSearch = NoSearch
    /\ request = NoRequest
    /\ response = NoResponse

(***************************************************************************)
(* The handlers that initialise and report the chains.                     *)
(***************************************************************************)
HoldInit == PdfInit /\ LlmInit

HoldNext ==
    \/ \E type \in InitTypes, keys \in KeySets :
           InitLlmUnified(type, keys) /\ UNCHANGED pdfVars
    \/ GetChainType /\ UNCHANGED pdfVars
    \/ \E claudeApiKey \in ClaudeKeys, threw \in BOOLEAN :
           InitLlmChain(claudeApiKey, threw) /\ UNCHANGED pdfVars
    \/ Reply /\ UNCHANGED pdfVars

HoldSpec == HoldInit /\ [][HoldNext]_vars

(***************************************************************************)
(* The conversations, started after the initialisation calls have been     *)
(* answered: no chain held, or the chain one successful init-llm-unified   *)
(* constructed, with or without the LLMChain of init-llm-chain.            *)
(***************************************************************************)
Held(unified, plain) ==
    [c \in ChainIds |->
        IF unified # Null /\ c = 1 THEN NewChain(unified)
        ELSE IF plain /\ c = (IF unified # Null THEN 2 ELSE 1)
             THEN NewChain("claude-gemini")
        ELSE Free]

ChainInit ==
    /\ PdfInit
    /\ chainType \in ChainTypes \cup {Null}
    /\ currentChain = (IF chainType # Null THEN 1 ELSE NoChain)
    /\ llmChain \in {NoChain, IF chainType # Null THEN 2 ELSE 1}
    /\ chains = Held(chainType, llmChain # NoChain)
    /\ invocations = <<>>
    /\ ipcResult = NoIpcResult

Runs == 1..MaxRuns

ChainNext ==
    \/ \E channel \in StartChannels, initialQuestion \in Questions :
           StartConversation(channel, initialQuestion) /\ UNCHANGED pdfVars
    \/ \E i \in Runs, ok \in BOOLEAN : AskPartner(i, ok) /\ UNCHANGED pdfVars
    \/ \E i \in Runs, ok \in BOOLEAN : GeminiFallback(i, ok) /\ UNCHANGED pdfVars
    \/ \E i \in Runs, ok \in BOOLEAN : AskGeminiFollowUp(i, ok) /\ UNCHANGED pdfVars
    \/ \E i \in Runs, ok \in BOOLEAN : AskGeminiFinal(i, ok) /\ UNCHANGED pdfVars

ChainSpec == ChainInit /\ [][ChainNext]_vars

(***************************************************************************)
(* What the claims speak of.                                               *)
(***************************************************************************)
StoredIds == {pdfDocuments[i].id : i \in 1..Len(pdfDocuments)}

\* The step is the handler `op` answering a call.
Answers(op) == request.op = "none" /\ request'.op = op

\* The step is a registration made by registerPDFsFromFolder.
FolderRegisters ==
    /\ folderRun.phase = "running"
    /\ Len(folderRun'.registeredIds) = Len(folderRun.registeredIds) + 1

IsSearchResponse == request.op = "search-pdfs" /\ response.kind = "search"

\* The matches of all results of a search response, each with the content of
\* the document it was found in.
ReturnedMatches ==
    UNION {{[content |-> pdfDocuments[OwnIndex(pdfDocuments,
                                               response.results[i].docId)].content,
             match |-> response.results[i].matches[j]] :
               j \in 1..Len(response.results[i].matches)} :
             i \in 1..Len(response.results)}

\* q occurs in text at offset p, letter case ignored.
OccursIgnoringCase(text, q, p) ==
    /\ p >= 0
    /\ p + Len(q) <= Len(text)
    /\ ToLowerCase(SubSeq(text, p + 1, p + Len(q))) = ToLowerCase(q)

\* The code units of text from offset a up to, not including, offset b.
Between(text, a, b) == SubSeq(text, a + 1, b)

\* A preview without its highlight markers.
RECURSIVE StripMarkers(_)
StripMarkers(s) ==
    IF s = <<>> THEN <<>>
    ELSE IF Len(s) >= 2 /\ SubSeq(s, 1, 2) = Marker THEN StripMarkers(SubSeq(s, 3, Len(s)))
    ELSE <<Head(s)>> \o StripMarkers(Tail(s))

\* text with every occurrence of q, letter case ignored and q read as plain
\* text, replaced by q between markers; occurrences are taken left to right.
RECURSIVE HighlightLiteral(_, _, _)
HighlightLiteral(text, q, i) ==
    IF i >= Len(text) THEN <<>>
    ELSE IF OccursIgnoringCase(text, q, i)
    THEN Marker \o q \o Marker \o HighlightLiteral(text, q, i + Len(q))
    ELSE <<text[i + 1]>> \o HighlightLiteral(text, q, i + 1)

\* C1: all docIds returned by register operations (register-pdf calls and
\* registerPDFsFromFolder) are pairwise distinct.
C1_ReturnedIdsDistinct ==
    \A i, j \in 1..Len(returnedIds) : i # j => returnedIds[i] # returnedIds[j]

\* C2: every successful registration adds exactly one document to the
\* registry and leaves every document registered before as it was.
C2_RegisterAddsOneDocument ==
    [][((Answers("register-pdf") /\ response'.kind = "registered") \/ FolderRegisters)
         => /\ Len(pdfDocuments') = Len(pdfDocuments) + 1
            /\ SubSeq(pdfDocuments', 1, Len(pdfDocuments)) = pdfDocuments]_vars

\* C3: once remove-pdf has reported a docId removed, and until a
\* registration returns that docId, get-pdf-content of it answers not found
\* and no search or list result names it; remove-pdf of a docId that is not
\* registered (removed before, or never registered) answers not found.
C3_RemovedIsGone ==
    [][/\ (Answers("get-pdf-content") /\ request'.docId \in removedIds)
            => response' = NotFound
       /\ (Answers("search-pdfs") /\ response'.kind = "search")
            => \A i \in 1..Len(response'.results) :
                 response'.results[i].docId \notin removedIds
       /\ Answers("list-pdfs")
            => \A i \in 1..Len(response'.documents) :
                 response'.documents[i].docId \notin removedIds
       /\ (Answers("remove-pdf") /\ request'.docId \notin StoredIds)
            => response' = NotFound]_vars

\* C4: a search with maxResults = k returns at most k results, each with at
\* most k matches (none of either for a k below 0).
C4_ResultsCapped ==
    IsSearchResponse =>
        /\ Len(response.results) <= Max(request.maxResults, 0)
        /\ \A i \in 1..Len(response.results) :
             Len(response.results[i].matches) <= Max(request.maxResults, 0)

\* C5: in every returned SearchResult, totalMatches is the length of its
\* matches list.
C5_TotalMatchesIsLength ==
    IsSearchResponse =>
        \A i \in 1..Len(response.results) :
            response.results[i].totalMatches = Len(response.results[i].matches)

\* C6: for a non-empty query and contextLength >= 0, every returned context
\* contains the query, letter case ignored, at the offset of the match
\* within the context window (less the white space trimmed in front of it).
C6_ContextContainsQuery ==
    (IsSearchResponse /\ request.query # <<>> /\ request.contextLength >= 0) =>
        \A m \in ReturnedMatches :
            LET contextStart == Max(0, m.match.position - request.contextLength)
                contextEnd == Min(Len(m.content), m.match.position
                                    + Len(request.query) + request.contextLength)
                window == Between(m.content, contextStart, contextEnd)
                trimmed == Len(window) - Len(TrimStart(window))
            IN OccursIgnoringCase(m.match.context, request.query,
                                  m.match.position - contextStart - trimmed)

\* The non-overlapping occurrences of q in text, letter case ignored, found
\* left to right from offset `from`: each is the leftmost one that starts at
\* or after the end of the one before.
RECURSIVE GreedyOccurrences(_, _, _)
GreedyOccurrences(text, q, from) ==
    LET hits == {p \in from..Len(text) : OccursIgnoringCase(text, q, p)}
    IN IF hits = {} THEN <<>>
       ELSE LET p == CHOOSE h \in hits : \A g \in hits : h <= g
            IN <<p>> \o GreedyOccurrences(text, q, p + Len(q))

\* C7: for a non-empty query, the matches of a document are the first
\* min(maxResults, n) of its n non-overlapping occurrences of the query,
\* letter case ignored, scanned greedily left to right.
C7_MatchesAreGreedyScan ==
    (IsSearchResponse /\ request.query # <<>>) =>
        \A i \in 1..Len(response.results) :
            LET content == pdfDocuments[OwnIndex(pdfDocuments,
                                                 response.results[i].docId)].content
                all == GreedyOccurrences(content, request.query, 0)
                matches == response.results[i].matches
            IN /\ Len(matches) = Max(Min(request.maxResults, Len(all)), 0)
               /\ \A j \in 1..Len(matches) : matches[j].position = all[j]

\* C8: the context of a match at position pos is the trimmed slice of the
\* content from max(0, pos - contextLength) up to min(len(content), pos +
\* len(query) + contextLength), which has at most len(query) +
\* 2*contextLength code units.
C8_ContextIsTrimmedWindow ==
    IsSearchResponse =>
        \A m \in ReturnedMatches :
            LET contextStart == Max(0, m.match.position - request.contextLength)
                contextEnd == Min(Len(m.content), m.match.position
                                    + Len(request.query) + request.contextLength)
                window == Between(m.content, contextStart, contextEnd)
            IN /\ m.match.context = Trim(window)
               /\ Len(window) <= Len(request.query) + 2 * request.contextLength

\* C9: a preview without its highlight markers is the context of the match.
C9_PreviewIsMarkedContext ==
    IsSearchResponse =>
        \A m \in ReturnedMatches : StripMarkers(m.match.preview) = m.match.context

\* C10: the preview is the context window with the occurrences of the query
\* read as plain text, letter case ignored, replaced by the query between
\* markers, and nothing else changed.
C10_HighlightIsLiteral ==
    (IsSearchResponse /\ request.query # <<>>) =>
        \A m \in ReturnedMatches :
            LET contextStart == Max(0, m.match.position - request.contextLength)
                contextEnd == Min(Len(m.content), m.match.position
                                    + Len(request.query) + request.contextLength)
                window == Substring(m.content, contextStart, contextEnd)
            IN m.match.preview = HighlightLiteral(window, request.query, 0)

\* The arguments of the search call are not valid.
InvalidSearchArguments ==
    \/ request.query = <<>>
    \/ request.maxResults < 0
    \/ request.contextLength < 0

\* C11: a search with an empty query, a negative maxResults or a negative
\* contextLength is answered with an InvalidArgument error and no results.
C11_InvalidArgumentsRejected ==
    (request.op = "search-pdfs" /\ InvalidSearchArguments) =>
        /\ response.kind = "error"
        /\ response.error = "InvalidArgument"

\* C12: every call is answered with a success payload or an error payload;
\* no handler throws.
C12_NoHandlerThrows ==
    response.kind \in {"none", "registered", "search", "content", "list",
                       "removed", "error"}

\* The answer to search("quick", maxResults = 10, contextLength = 5) over the
\* quick-brown-fox document: one result with two matches, at the positions
\* first and second, each preview holding a highlighted "quick".
ScenarioCall ==
    /\ request.op = "search-pdfs"
    /\ request.query = Quick
    /\ request.maxResults = 10
    /\ request.contextLength = 5
    /\ pdfDocuments = <<OneDocument(FoxText)>>

ScenarioMatchesAt(first, second) ==
    /\ response.kind = "search"
    /\ Len(response.results) = 1
    /\ Len(response.results[1].matches) = 2
    /\ response.results[1].matches[1].position = first
    /\ response.results[1].matches[2].position = second
    /\ \A j \in 1..2 :
         \E p \in 0..Len(response.results[1].matches[j].preview) :
           OccursAt(response.results[1].matches[j].preview, Highlighted(Quick), p)

\* C13, with the second position as the scenario gives it: the scenario
\* search returns one result with exactly 2 matches, at positions 4 and 21,
\* each preview with a highlighted "quick".
C13_QuickAt4And21 == ScenarioCall => ScenarioMatchesAt(4, 21)

\* C13, with the second position at the offset of the second "quick": the
\* scenario search returns one result with exactly 2 matches, at positions 4
\* and 24, each preview with a highlighted "quick".
C13_QuickAt4And24 == ScenarioCall => ScenarioMatchesAt(4, 24)

\* The scenario search was called and answered.
C13_ScenarioAnswered == ScenarioCall /\ response.kind = "search"

\* C14: in every search response, query is the query passed, totalDocuments
\* is the number of documents in the registry (also when the scan stopped
\* early at the cap) and resultsFound is the length of results; on an empty
\* registry resultsFound = 0, totalDocuments = 0 and results is empty.
C14_SearchTotals ==
    IsSearchResponse =>
        /\ response.query = request.query
        /\ response.totalDocuments = Cardinality(StoredIds)
        /\ response.resultsFound = Len(response.results)
        /\ pdfDocuments = <<>> =>
             /\ response.resultsFound = 0
             /\ response.totalDocuments = 0
             /\ response.results = <<>>

\* A search that stopped at the cap with a document left unscanned.
C14_StoppedEarly ==
    /\ IsSearchResponse
    /\ Len(pdfDocuments) = 2
    /\ request.maxResults = 1
    /\ response.results # <<>>
    /\ response.results[1].docId = pdfDocuments[1].id
    /\ response.totalDocuments = 2

\* The document contains q, letter case ignored.
Contains(content, q) == \E p \in 0..Len(content) : OccursIgnoringCase(content, q, p)

\* The docIds of the documents that contain q, in the order of the registry.
MatchingIds(documents, q) ==
    LET F[i \in 0..Len(documents)] ==
            IF i = 0 THEN <<>>
            ELSE IF Contains(documents[i].content, q)
            THEN Append(F[i - 1], documents[i].id)
            ELSE F[i - 1]
    IN F[Len(documents)]

\* C15: for maxResults >= 0, the results of a search are the first
\* min(maxResults, m) of the m documents that contain the query, in the
\* order of the registry, each once and each with at least one match.
C15_FirstMatchingDocuments ==
    (IsSearchResponse /\ request.maxResults >= 0) =>
        LET matching == MatchingIds(pdfDocuments, request.query)
            expected == SubSeq(matching, 1, Min(request.maxResults, Len(matching)))
        IN /\ [i \in 1..Len(response.results) |-> response.results[i].docId] = expected
           /\ \A i \in 1..Len(response.results) :
                Len(response.results[i].matches) >= 1

\* C16: get-pdf-content with a docId that is not the id of a registered
\* document answers not found, with no payload field, whatever startChar
\* and length are.
C16_UnknownIdNotFound ==
    (request.op = "get-pdf-content" /\ request.docId \notin StoredIds) =>
        response = NotFound

\* C17: get-pdf-content of a registered document with startChar at or
\* beyond the end of the content answers success with the empty string and
\* contentLength 0, with or without a length.
C17_BeyondEndIsEmpty ==
    (/\ request.op = "get-pdf-content"
     /\ request.docId \in StoredIds
     /\ request.startChar >=
          Len(pdfDocuments[OwnIndex(pdfDocuments, request.docId)].content)) =>
        /\ response.kind = "content"
        /\ response.success
        /\ response.content = <<>>
        /\ response.contentLength = 0

Visible == {d \in Range(returnedIds) : d \notin removedIds}

\* As many documents that contain q come before the document of docId d as
\* the cap lets through.
CapsAllow(documents, q, maxResults, d) ==
    LET matching == MatchingIds(documents, q)
    IN \E i \in 1..Len(matching) : matching[i] = d /\ i <= maxResults

\* C19: a docId a registration has returned, and no remove-pdf has removed
\* since, is seen by every later call: get-pdf-content of it answers with a
\* registered content, list-pdfs names it, totalDocuments counts it, and a
\* search finds it when its content contains the query and the caps allow.
C19_ReturnedIsVisible ==
    [][\A d \in Visible :
         /\ d \in StoredIds
         /\ (/\ Answers("get-pdf-content")
             /\ request'.docId = d
             /\ request'.startChar = 0
             /\ request'.length = Undefined)
              => /\ response'.kind = "content"
                 /\ <<d, response'.content>> \in registeredAs
         /\ Answers("list-pdfs")
              => /\ \E i \in 1..Len(response'.documents) :
                      response'.documents[i].docId = d
                 /\ response'.totalDocuments >= Cardinality(Visible)
         /\ (/\ Answers("search-pdfs")
             /\ Contains(pdfDocuments[OwnIndex(pdfDocuments, d)].content,
                         request'.query)
             /\ CapsAllow(pdfDocuments, request'.query, request'.maxResults, d))
              => /\ response'.kind = "search"
                 /\ response'.totalDocuments >= Cardinality(Visible)
                 /\ \E i \in 1..Len(response'.results) :
                      response'.results[i].docId = d]_vars

\* The registration whose document the step stores, if any: its docId, and
\* the docIds other registrations stored while it was awaiting its parse.
RegisteredNow ==
    IF Answers("register-pdf") /\ response'.kind = "registered"
    THEN {[docId |-> response'.docId, raced |-> request'.raced]}
    ELSE IF FolderRegisters
    THEN {[docId |-> folderRun'.registeredIds[Len(folderRun'.registeredIds)],
           raced |-> folderRun.raced]}
    ELSE {}

\* The document is whole: all its fields are those of one registration of
\* its file.
Whole(doc) ==
    doc = NewDocument(doc.filePath, ReadAndParse(doc.filePath),
                      doc.metadata.createdAt, doc.id[3])

\* C20: under any interleaving of suspended registrations with the other
\* calls, a step inserts or deletes at most one whole document, every
\* stored document is whole, and when two racing registrations have both
\* completed, both documents are in the registry (unless removed since).
C20_RacingRegistersBothStored ==
    [][/\ Cardinality((StoredIds \ StoredIds') \cup (StoredIds' \ StoredIds)) <= 1
       /\ \A i \in 1..Len(pdfDocuments') : Whole(pdfDocuments'[i])
       /\ \A r \in RegisteredNow :
            \A e \in r.raced \ removedIds :
              /\ e # r.docId
              /\ {e, r.docId} \subseteq StoredIds']_vars

\* C21: list-pdfs never fails; it answers with totalDocuments, the number of
\* stored documents, and one entry per stored document, holding its docId,
\* filename, pages, content length, createdAt and filePath.
C21_ListIsTheStore ==
    request.op = "list-pdfs" =>
        /\ response.kind = "list"
        /\ response.totalDocuments = Cardinality(StoredIds)
        /\ Len(response.documents) = Cardinality(StoredIds)
        /\ \A d \in StoredIds :
             LET doc == pdfDocuments[OwnIndex(pdfDocuments, d)]
                 entries == {i \in 1..Len(response.documents) :
                               response.documents[i].docId = d}
             IN /\ Cardinality(entries) = 1
                /\ \A i \in entries :
                     /\ response.documents[i].filename = Basename(doc.filePath)
                     /\ response.documents[i].pages = doc.metadata.pages
                     /\ response.documents[i].contentLength = Len(doc.content)
                     /\ response.documents[i].createdAt = doc.metadata.createdAt
                     /\ response.documents[i].filePath = doc.filePath

\* list-pdfs answered over a registry of two documents.
C21_ListedTwo ==
    /\ request.op = "list-pdfs"
    /\ Len(pdfDocuments) = 2
    /\ response.kind = "list"

\* C22: a remove-pdf that answers success deletes the entry of docId, which
\* was there, and nothing else; one that answers not found leaves the
\* registry as it was.
C22_RemoveDeletesItsEntry ==
    [][Answers("remove-pdf") =>
         IF response'.kind = "removed"
         THEN /\ request'.docId \in StoredIds
              /\ StoredIds' = StoredIds \ {request'.docId}
              /\ \A i \in 1..Len(pdfDocuments') :
                   \E j \in 1..Len(pdfDocuments) : pdfDocuments'[i] = pdfDocuments[j]
         ELSE /\ response' = NotFound
              /\ pdfDocuments' = pdfDocuments]_vars

\* The positions grow strictly.
StrictlyIncreasing(seq) == \A i \in 1..(Len(seq) - 1) : seq[i] < seq[i + 1]

\* C23: for maxResults >= 0, the scan of a document runs its loop body at
\* most min(len(content), maxResults) + 1 times, and with a non-empty query
\* startIndex grows strictly from one iteration to the next.
C23_ScanIsBounded ==
    (request.op = "search-pdfs" /\ request.maxResults >= 0) =>
        \A i \in 1..Len(pdfDocuments) :
            LET scan == ScanDocument(pdfDocuments[i], request.query,
                                     request.maxResults, request.contextLength)
            IN /\ request.query # <<>> => StrictlyIncreasing(scan.visited)
               /\ Len(scan.visited)
                    <= Min(Len(pdfDocuments[i].content), request.maxResults) + 1

\* C24: search-pdfs, list-pdfs and get-pdf-content leave the registry as it
\* was, whatever the arguments and whatever the answer.
C24_ReadsChangeNothing ==
    [][(Answers("search-pdfs") \/ Answers("list-pdfs") \/ Answers("get-pdf-content"))
         => pdfDocuments' = pdfDocuments]_vars

\* A search found something in a registry of two documents.
C24_SearchFound ==
    /\ IsSearchResponse
    /\ Len(pdfDocuments) = 2
    /\ response.results # <<>>

\* C25: get-pdf-content of a registered document, with startChar >= 0 and a
\* length >= 0 (0 included), answers the content from startChar up to
\* min(len, startChar + length), with contentLength the length of that
\* slice; without a length it answers the content from startChar to the end.
C25_ContentIsTheSlice ==
    (/\ request.op = "get-pdf-content"
     /\ request.docId \in StoredIds
     /\ request.startChar >= 0
     /\ request.length.given => request.length.value >= 0) =>
        LET text == pdfDocuments[OwnIndex(pdfDocuments, request.docId)].content
            end == IF request.length.given
                   THEN Min(Len(text), request.startChar + request.length.value)
                   ELSE Len(text)
        IN /\ response.kind = "content"
           /\ response.content = Between(text, request.startChar, end)
           /\ response.contentLength = Len(response.content)

\* C26: a register-pdf whose file cannot be read or parsed answers an error
\* payload (success false, the error message), no docId, and leaves the
\* registry as it was.
C26_FailedRegisterChangesNothing ==
    [][(Answers("register-pdf") /\ ~ReadAndParse(request'.filePath).ok) =>
         /\ response'.kind = "error"
         /\ response'.success = FALSE
         /\ response'.error = ReadAndParse(request'.filePath).error
         /\ "docId" \notin DOMAIN response'
         /\ pdfDocuments' = pdfDocuments
         /\ returnedIds' = returnedIds]_vars

\* register-pdf answered an error for a file that is no PDF, with a document
\* in the registry.
C26_ParseFailed ==
    /\ request.op = "register-pdf"
    /\ request.filePath = FileBroken
    /\ response.kind = "error"
    /\ pdfDocuments # <<>>

\* The files among the first n of the sequence that can be read and parsed.
Parsable(files) ==
    LET F[i \in 0..Len(files)] ==
            IF i = 0 THEN <<>>
            ELSE IF ReadAndParse(files[i]).ok THEN Append(F[i - 1], files[i])
            ELSE F[i - 1]
    IN F[Len(files)]

\* C27: registerPDFsFromFolder returns the docIds of the documents it
\* stored, in the order it stored them, one per file read and parsed; a file
\* that fails is skipped, stores nothing, and the files after it are still
\* handled; a folder that is not there gives the empty list and leaves the
\* registry as it was.
C27_FolderReturnsWhatItStored ==
    [][/\ FolderRegisters =>
            LET docId == folderRun'.registeredIds[Len(folderRun'.registeredIds)]
            IN /\ ReadAndParse(Head(folderRun.files)).ok
               /\ folderRun'.registeredIds = Append(folderRun.registeredIds, docId)
               /\ docId \in StoredIds'
               /\ pdfDocuments'[OwnIndex(pdfDocuments', docId)].filePath
                    = Head(folderRun.files)
       /\ (folderRun.phase = "running" /\ folderRun' # folderRun /\ ~FolderRegisters) =>
            \/ /\ folderRun'.registeredIds = folderRun.registeredIds
               /\ pdfDocuments' = pdfDocuments
               /\ ~ReadAndParse(Head(folderRun.files)).ok
               /\ folderRun'.files = Tail(folderRun.files)
            \/ /\ Answers("register-pdf")
               /\ folderRun'.registeredIds = folderRun.registeredIds
               /\ folderRun'.files = folderRun.files
       /\ (folderRun.phase # "returned" /\ folderRun'.phase = "returned") =>
            /\ Len(folderRun'.registeredIds)
                 = Len(Parsable(FolderFiles(folderRun'.folderPath)))
            /\ ~FolderExists(folderRun'.folderPath) =>
                 /\ folderRun'.registeredIds = <<>>
                 /\ pdfDocuments' = pdfDocuments]_vars

\* registerPDFsFromFolder returned two docIds from a folder whose second
\* file is no PDF.
C27_FolderReturnedTwo ==
    /\ folderRun.phase = "returned"
    /\ folderRun.folderPath = FolderDocs
    /\ Len(folderRun.registeredIds) = 2

\* The invocations that have been answered, and the ones answered success:true.
Answered == {i \in 1..Len(invocations) : invocations[i].pc = "done"}
Successful == {i \in Answered : invocations[i].result.success}

\* The round order of the messages of one conversation.
RoundOrder == <<"question", "answer1", "followUp2", "answer2", "question3", "final">>
Rank(part) == CHOOSE k \in 1..Len(RoundOrder) : RoundOrder[k] = part

\* C28: the conversation one runConversationChain invocation returns holds
\* only messages that invocation pushed, in round order (question, round-1
\* answer, round-2 messages, round-3 question, final answer), whatever other
\* invocation ran on the same chain instance while it was suspended.
C28_ConversationIsItsOwn ==
    \A i \in Successful :
        LET conversation == invocations[i].result.conversation
        IN /\ \A k \in 1..Len(conversation) : conversation[k].by = i
           /\ \A k \in 1..(Len(conversation) - 1) :
                  Rank(conversation[k].part) < Rank(conversation[k + 1].part)

\* The type of the chain instance the unified handlers hold.
HeldType == IF currentChain = NoChain THEN Null ELSE chains[currentChain].kind

\* C29: get-chain-type answers the type of the chain instance held at that
\* moment (null when none is held), and an init-llm-unified call that fails
\* changes neither the held chain nor the reported chain type.
C29_ChainTypeNamesTheHeldChain ==
    [][/\ ipcResult'.channel = "get-chain-type" => ipcResult'.answer = HeldType'
       /\ (ipcResult'.channel = "init-llm-unified" /\ ~ipcResult'.answer.success)
              => (currentChain' = currentChain /\ chainType' = chainType)]_vars

\* C30: every start-conversation request is answered, never thrown; it is
\* answered success:true with a conversation only after all three rounds;
\* with no chain initialised it is answered success:false and no provider
\* is called; it is answered success:false otherwise only when a Gemini
\* call failed (so the round-1 partner's failure alone is absorbed by the
\* Gemini fallback), and a Gemini failure always ends in success:false with
\* an error and no conversation.
C30_StartConversationAnswers ==
    \A i \in 1..Len(invocations) :
        LET inv == invocations[i]
        IN /\ inv.pc # "done" => inv.result = NoResult
           /\ inv.pc = "done" =>
                  \/ /\ DOMAIN inv.result = {"success", "conversation"}
                     /\ inv.result.success = TRUE
                     /\ inv.rounds = 3
                     /\ ~inv.geminiFailed
                  \/ /\ DOMAIN inv.result = {"success", "error"}
                     /\ inv.result.success = FALSE
                     /\ inv.kind = "none" \/ inv.geminiFailed
           /\ inv.kind = "none" =>
                  /\ inv.pc = "done"
                  /\ inv.result = Failed(NotInitialized(inv.channel))
                  /\ ~inv.called
           /\ inv.geminiFailed =>
                  /\ inv.pc = "done"
                  /\ inv.result = Failed(GeminiFailed)

\* One request was answered with a complete conversation whose round-1
\* answer came from the Gemini fallback, and another was refused because a
\* Gemini call failed.
C30_FallbackCarriedAndGeminiFailed ==
    /\ \E i \in Successful :
           \E k \in 1..Len(invocations[i].result.conversation) :
               LET message == invocations[i].result.conversation[k]
               IN message.by = i /\ message.content = "fallbackResponse1"
    /\ \E i \in Answered : invocations[i].geminiFailed

====
